---- MODULE Spec2Model ----
(***************************************************************************)
(* Model of pygem/vtkhandler.py: the VtkHandler class (parse, write, plot, *)
(* show) over a file system of legacy vtk files.                           *)
(*                                                                         *)
(* A path argument is a record [type, text]: type is the Python type of    *)
(* the argument ("str", "int", "NoneType") and text the characters of a    *)
(* string, one one-character string per element.  A coordinate is an       *)
(* integer on a fine grid (a double); the single precision values are the  *)
(* multiples of Quantum.                                                   *)
(***************************************************************************)
EXTENDS Integers, Sequences, FiniteSets, TLC

VARIABLES
    infile,           \* self.infile
    outfile,          \* self.outfile
    fs,               \* the file system: path text -> file contents
    last,             \* the call just made: arguments, outcome, I/O done
    lastValidParse,   \* history: path of the latest parse that passed validation
    lastCheckedWrite, \* history: path of the latest write that passed its checks
    prevWrite         \* history: after a parse, the write that has just written its file

vars == <<infile, outfile, fs, last, lastValidParse, lastCheckedWrite, prevWrite>>

----------------------------------------------------------------------------
(* Bounds of the inputs *)

MaxCoord == 2
MaxRows == 3

----------------------------------------------------------------------------
(* Values *)

None == [type |-> "NoneType", text |-> <<>>]
Str(s) == [type |-> "str", text |-> s]
NotAString == [type |-> "int", text |-> <<>>]

a_vtk == <<"a", ".", "v", "t", "k">>
b_vtk == <<".", "/", "b", ".", "v", "t", "k">>
a_txt == <<"a", ".", "t", "x", "t">>

\* every filename argument a call is given
Filenames == {Str(a_vtk), Str(b_vtk), Str(a_txt), NotAString}

Row(k) == << k % (MaxCoord + 1), (k + 1) % (MaxCoord + 1), (k + 2) % (MaxCoord + 1) >>
Table(n, s) == [i \in 1..n |-> Row(s + i - 1)]
\* the coordinate tables a caller passes to write: n rows starting at Row(s)
Tables == {Table(n, s) : n \in 0..MaxRows, s \in 0..MaxCoord}

\* a vtk file: points, cells (0-based point indices per cell), scalar/vector fields
Mesh(points, cells, fields) ==
    [kind |-> "vtk", points |-> points, cells |-> cells, fields |-> fields]
PngFile == [kind |-> "png", points |-> <<>>, cells |-> <<>>, fields |-> "figure"]

MeshA == Mesh(Table(3, 0), << <<0, 1, 2>> >>, "scalarsA")
MeshB == Mesh(Table(1, 1), <<>>, "vectorsB")
MeshE == Mesh(<<>>, <<>>, "none")

----------------------------------------------------------------------------
(* FileHandler: the base class *)

extension == <<".", "v", "t", "k">>

HasSuffix(s, suf) ==
    /\ Len(s) >= Len(suf)
    /\ SubSeq(s, Len(s) - Len(suf) + 1, Len(s)) = suf

check_filename_type(filename) == filename.type = "str"
check_extension(filename) == HasSuffix(filename.text, extension)
check_infile_instantiation(inf) == inf.type # "NoneType"

----------------------------------------------------------------------------
(* The toolkit *)

Quantum == 2
\* a double stored in a vtkPoints array of single precision
ToFloat(x) == x - (x % Quantum)

\* whether a vtk reader can read the file at this path
CanRead(path) == path \in DOMAIN fs /\ fs[path].kind = "vtk"

Call(op, filename, save_fig, mesh_points) ==
    [op |-> op, filename |-> filename, save_fig |-> save_fig,
     mesh_points |-> mesh_points, status |-> "ok", result |-> <<>>,
     n_points |-> -1, read |-> {}, written |-> {}, shown |-> FALSE]

\* a string that ends with '.vtk'
IsVtkPath(f) ==
    /\ f.type = "str"
    /\ Len(f.text) >= 4
    /\ \A i \in 1..4 : f.text[Len(f.text) - 4 + i] = extension[i]

\* what a parse remembers of the write that has just written the file it reads
WriteRecord(c) ==
    [filename |-> c.filename, mesh_points |-> c.mesh_points,
     n_points |-> c.n_points, status |-> c.status]
NoWrite == [filename |-> None, mesh_points |-> <<>>, n_points |-> -1, status |-> "none"]

----------------------------------------------------------------------------
(* VtkHandler.parse *)

\* the extension check left out of parse
parseChecksTypeOnly(filename) ==
    IF ~check_filename_type(filename) THEN "TypeError" ELSE "ok"

parseChecks(filename) ==
    IF ~check_filename_type(filename) THEN "TypeError"
    ELSE IF ~check_extension(filename) THEN "ValueError"
    ELSE "ok"

\* the copy loop stopping one point early: the last row stays zero
GetPointsShort(data) ==
    [i \in 1..Len(data.points) |->
        IF i < Len(data.points) THEN [k \in 1..3 |-> data.points[i][k]]
        ELSE <<0, 0, 0>>]

\* mesh_points[i] = data.GetPoint(i) for i in range(n_points)
GetPoints(data) ==
    [i \in 1..Len(data.points) |-> [k \in 1..3 |-> data.points[i][k]]]

parse(filename) ==
    LET st == parseChecks(filename)
        c == Call("parse", filename, FALSE, <<>>)
    IN  /\ IF st # "ok"
           THEN /\ last' = [c EXCEPT !.status = st]
                /\ infile' = infile
           ELSE /\ infile' = filename
                /\ last' = IF CanRead(infile'.text)
                           THEN [c EXCEPT !.read = {infile'.text},
                                          !.n_points = Len(fs[infile'.text].points),
                                          !.result = GetPoints(fs[infile'.text])]
                           ELSE [c EXCEPT !.read = {infile'.text},
                                          !.status = "ToolkitError"]
        /\ lastValidParse' = IF IsVtkPath(filename) THEN filename ELSE lastValidParse
        /\ prevWrite' = IF last.op = "write" /\ last.status = "ok"
                           /\ last.filename = filename
                        THEN WriteRecord(last)
                        ELSE NoWrite
        /\ UNCHANGED <<outfile, fs, lastCheckedWrite>>

----------------------------------------------------------------------------
(* VtkHandler.write *)

\* write without _check_infile_instantiation
writeChecksNoInfile(filename, inf) ==
    IF ~check_filename_type(filename) THEN "TypeError"
    ELSE IF ~check_extension(filename) THEN "ValueError"
    ELSE "ok"

\* write checking the input source before its filename argument
writeChecksInfileFirst(filename, inf) ==
    IF ~check_infile_instantiation(inf) THEN "RuntimeError"
    ELSE IF ~check_filename_type(filename) THEN "TypeError"
    ELSE IF ~check_extension(filename) THEN "ValueError"
    ELSE "ok"

writeChecks(filename, inf) ==
    IF ~check_filename_type(filename) THEN "TypeError"
    ELSE IF ~check_extension(filename) THEN "ValueError"
    ELSE IF ~check_infile_instantiation(inf) THEN "RuntimeError"
    ELSE "ok"

\* write re-reading the file it wrote last instead of the parsed one
writeSourceOutfile == IF outfile = None THEN infile.text ELSE outfile.text

\* the path handed to the reader of write
writeSource == infile.text

\* the rows inserted from the last to the first
InsertPointsReversed(mesh_points, n) ==
    [i \in 1..n |-> [k \in 1..3 |-> ToFloat(mesh_points[n + 1 - i][k])]]

\* points.InsertNextPoint(mesh_points[i, :]) for i in range(n): the first n rows,
\* each coordinate stored in single precision
InsertPoints(mesh_points, n) ==
    [i \in 1..n |-> [k \in 1..3 |-> ToFloat(mesh_points[i][k])]]

\* the points put into a fresh dataset: cells and fields are lost
SetPointsOnly(data, points) == Mesh(points, <<>>, "none")

\* data.SetPoints(points): only the points of the dataset change
SetPoints(data, points) == [data EXCEPT !.points = points]

\* a length check that rejects every table whose row count differs
RowsMismatch(mesh_points, n) == Len(mesh_points) # n

\* whether the loop over range(data.GetNumberOfPoints()) indexes past the last row
RowsMissing(mesh_points, n) == Len(mesh_points) < n

write(mesh_points, filename) ==
    LET st == writeChecks(filename, infile)
        c == Call("write", filename, FALSE, mesh_points)
    IN  /\ IF st # "ok"
           THEN /\ last' = [c EXCEPT !.status = st]
                /\ UNCHANGED <<outfile, fs>>
           ELSE /\ outfile' = filename
                /\ IF ~CanRead(writeSource)
                   THEN /\ last' = [c EXCEPT !.read = {writeSource},
                                             !.status = "ToolkitError"]
                        /\ fs' = fs
                   ELSE LET data == fs[writeSource]
                            n == Len(data.points)
                        IN  IF RowsMissing(mesh_points, n)
                            THEN \* mesh_points[i, :] raises, nothing is written
                                 /\ last' = [c EXCEPT !.read = {writeSource},
                                                      !.n_points = n,
                                                      !.status = "IndexError"]
                                 /\ fs' = fs
                            ELSE /\ last' = [c EXCEPT !.read = {writeSource},
                                                      !.n_points = n,
                                                      !.written = {outfile'.text}]
                                 /\ fs' = (outfile'.text :>
                                             SetPoints(data, InsertPoints(mesh_points, n)))
                                          @@ fs
        /\ lastCheckedWrite' = IF IsVtkPath(filename) /\ lastValidParse # None
                               THEN filename
                               ELSE lastCheckedWrite
        /\ prevWrite' = NoWrite
        /\ UNCHANGED <<infile, lastValidParse>>

----------------------------------------------------------------------------
(* VtkHandler.plot and VtkHandler.show *)

\* the checks made on a path the caller supplies (plot_file / show_file not None)
plotChecks(plot_file) ==
    IF ~check_filename_type(plot_file) THEN "TypeError" ELSE "ok"

\* index of the first '.' of s, Len(s) + 1 when there is none
FirstDot(s) ==
    IF \E i \in 1..Len(s) : s[i] = "."
    THEN CHOOSE i \in 1..Len(s) : s[i] = "." /\ \A j \in 1..(i - 1) : s[j] # "."
    ELSE Len(s) + 1

\* index of the last '.' of s, Len(s) + 1 when there is none
LastDot(s) ==
    IF \E i \in 1..Len(s) : s[i] = "."
    THEN CHOOSE i \in 1..Len(s) : s[i] = "." /\ \A j \in (i + 1)..Len(s) : s[j] # "."
    ELSE Len(s) + 1

\* os.path.splitext(plot_file)[0] + '.png'
pngNameSplitext(plot_file) ==
    SubSeq(plot_file, 1, LastDot(plot_file) - 1) \o <<".", "p", "n", "g">>

\* plot_file.split('.')[0] + '.png'
pngName(plot_file) ==
    SubSeq(plot_file, 1, FirstDot(plot_file) - 1) \o <<".", "p", "n", "g">>

\* the file plot or show works on
PlottedFile(file_arg) == IF file_arg = None THEN infile ELSE file_arg

plot(plot_file, save_fig) ==
    LET st == IF plot_file = None THEN "ok" ELSE plotChecks(plot_file)
        file == PlottedFile(plot_file)
        c == Call("plot", plot_file, save_fig, <<>>)
    IN  /\ UNCHANGED <<infile, outfile, lastValidParse, lastCheckedWrite>>
        /\ prevWrite' = NoWrite
        /\ IF st # "ok"
           THEN last' = [c EXCEPT !.status = st] /\ fs' = fs
           ELSE IF file = None
           THEN last' = [c EXCEPT !.status = "ToolkitError"] /\ fs' = fs
           ELSE IF ~CanRead(file.text)
           THEN /\ last' = [c EXCEPT !.read = {file.text}, !.status = "ToolkitError"]
                /\ fs' = fs
           ELSE IF save_fig
           THEN /\ last' = [c EXCEPT !.read = {file.text},
                                     !.written = {pngName(file.text)}]
                /\ fs' = (pngName(file.text) :> PngFile) @@ fs
           ELSE /\ last' = [c EXCEPT !.read = {file.text}, !.shown = TRUE]
                /\ fs' = fs

show(show_file) ==
    LET st == IF show_file = None THEN "ok" ELSE plotChecks(show_file)
        file == PlottedFile(show_file)
        c == Call("show", show_file, FALSE, <<>>)
    IN  /\ UNCHANGED <<infile, outfile, fs, lastValidParse, lastCheckedWrite>>
        /\ prevWrite' = NoWrite
        /\ IF st # "ok"
           THEN last' = [c EXCEPT !.status = st]
           ELSE IF file = None
           THEN last' = [c EXCEPT !.status = "ToolkitError"]
           ELSE IF ~CanRead(file.text)
           THEN last' = [c EXCEPT !.read = {file.text}, !.status = "ToolkitError"]
           ELSE last' = [c EXCEPT !.read = {file.text}, !.shown = TRUE]

----------------------------------------------------------------------------

Init ==
    /\ infile = None
    /\ outfile = None
    /\ fs \in {(a_vtk :> MeshA) @@ (a_txt :> MeshA),
               (a_vtk :> MeshA) @@ (a_txt :> MeshA) @@ (b_vtk :> MeshB),
               (a_vtk :> MeshA) @@ (a_txt :> MeshA) @@ (b_vtk :> MeshE)}
    /\ last = Call("init", None, FALSE, <<>>)
    /\ lastValidParse = None
    /\ lastCheckedWrite = None
    /\ prevWrite = NoWrite

Next ==
    \/ \E filename \in Filenames : parse(filename)
    \/ \E mesh_points \in Tables, filename \in Filenames : write(mesh_points, filename)
    \/ \E plot_file \in Filenames \cup {None}, save_fig \in BOOLEAN : plot(plot_file, save_fig)
    \/ \E show_file \in Filenames \cup {None} : show(show_file)

Spec == Init /\ [][Next]_vars

----------------------------------------------------------------------------
(* Vocabulary of the properties *)

InvalidArgument(status) == status \in {"TypeError", "ValueError"}
PreconditionError(status) == status = "RuntimeError"

Abs(x) == IF x < 0 THEN -x ELSE x

\* two tables with the same rows, each coordinate within single precision
Close(r, t) ==
    /\ Len(r) = Len(t)
    /\ \A i \in 1..Len(t) : \A k \in 1..3 : Abs(r[i][k] - t[i][k]) < Quantum

\* the parse just made re-read the file that write(T, out) had just written
\* from a table T with as many rows as the source mesh has points
ReadBack ==
    /\ last.op = "parse"
    /\ prevWrite.status = "ok"
    /\ prevWrite.filename = last.filename
    /\ Len(prevWrite.mesh_points) = prevWrite.n_points

png == <<".", "p", "n", "g">>

----------------------------------------------------------------------------
(* C1 as stated: write(T, out) followed by parse(out) returns a table equal *)
(* to T row for row, for every table T with as many rows as the parsed     *)
(* mesh has points.                                                        *)
C1_RoundTripExact ==
    ReadBack => last.status = "ok" /\ last.result = prevWrite.mesh_points

(* C1 amended: write(T, out) followed by parse(out) returns a table with   *)
(* the rows of T in the same order, row i being point i of the re-read     *)
(* mesh, each coordinate equal to that of T within the tolerance of the    *)
(* single precision in which write stores the points.                      *)
C1_RoundTripWithinTolerance ==
    ReadBack => last.status = "ok" /\ Close(last.result, prevWrite.mesh_points)

C1_Witness ==
    /\ ReadBack
    /\ last.status = "ok"
    /\ Len(last.result) = 3
    /\ last.result # prevWrite.mesh_points

(* C2: on a handler on which no parse has recorded an input path, write    *)
(* with a '.vtk' string path raises the precondition error, writes no file *)
(* and does not record the output path.                                    *)
C2_WriteBeforeParse ==
    (last.op = "write" /\ IsVtkPath(last.filename) /\ lastValidParse = None)
        => /\ PreconditionError(last.status)
           /\ last.written = {}
           /\ last.read = {}
           /\ outfile = None

C2_Witness ==
    /\ last.op = "write"
    /\ IsVtkPath(last.filename)
    /\ lastValidParse = None
    /\ last.status = "RuntimeError"
    /\ last.mesh_points # <<>>

(* C3: parse and write called with a path that is not a string or lacks    *)
(* '.vtk' raise an invalid-argument error before any file is read or       *)
(* written, in every handler state, also for write before any parse.       *)
C3_InvalidPathRejected ==
    (last.op \in {"parse", "write"} /\ ~IsVtkPath(last.filename))
        => /\ InvalidArgument(last.status)
           /\ last.read = {}
           /\ last.written = {}

C3_Witness ==
    /\ last.op = "write"
    /\ ~IsVtkPath(last.filename)
    /\ lastValidParse = None
    /\ last.status = "ValueError"

(* C4: a successful parse of a mesh of P points (P = 0 included) returns   *)
(* P rows of 3 columns, row i holding the position of point i.             *)
C4_ParseShape ==
    (last.op = "parse" /\ last.status = "ok")
        => LET points == fs[last.filename.text].points
           IN  /\ Len(last.result) = Len(points)
               /\ last.n_points = Len(points)
               /\ \A i \in 1..Len(points) :
                    /\ Len(last.result[i]) = 3
                    /\ \A k \in 1..3 : last.result[i][k] = points[i][k]

C4_Witness ==
    /\ last.op = "parse"
    /\ last.status = "ok"
    /\ Len(last.result) = 3
    /\ last.result[3] # <<0, 0, 0>>

(* C5: write changes only point coordinates: the mesh written to out has   *)
(* the cell count, cell connectivity and fields of the mesh at the         *)
(* recorded input path, for a table with as many rows as the mesh has      *)
(* points, and no other file changes.                                      *)
C5_OnlyPointsChange ==
    [][(last'.op = "write" /\ last'.status = "ok"
            /\ Len(last'.mesh_points) = last'.n_points)
        => LET out == last'.filename.text
               src == fs[infile.text]
           IN  /\ Len(fs'[out].cells) = Len(src.cells)
               /\ fs'[out].cells = src.cells
               /\ fs'[out].fields = src.fields
               /\ Len(fs'[out].points) = Len(src.points)
               /\ \A f \in DOMAIN fs : f # out => fs'[f] = fs[f]
               /\ DOMAIN fs' = DOMAIN fs \cup {out}]_vars

C5_Witness ==
    /\ last.op = "write"
    /\ last.status = "ok"
    /\ Len(last.mesh_points) = last.n_points
    /\ last.filename # infile
    /\ fs[last.filename.text].cells # <<>>
    /\ fs[last.filename.text].points # fs[infile.text].points

(* C6: the input path is the path of the latest parse that passed          *)
(* validation, the output path that of the latest write that passed its    *)
(* checks, and a write reads its mesh from the recorded input path only.   *)
C6_LatestPaths ==
    /\ infile = lastValidParse
    /\ outfile = lastCheckedWrite
    /\ (last.op = "write" /\ last.read # {}) => last.read = {lastValidParse.text}

C6_Witness ==
    /\ last.op = "write"
    /\ last.status = "ok"
    /\ lastValidParse = Str(b_vtk)
    /\ lastCheckedWrite = Str(a_vtk)
    /\ last.read = {b_vtk}
    /\ fs[a_vtk].fields = "vectorsB"

(* C7 as stated: a write after a parse with a table of more or of fewer    *)
(* rows than the source mesh has points completes without error and        *)
(* produces the output file.                                               *)
C7_MismatchSilent ==
    (last.op = "write" /\ last.n_points >= 0
            /\ Len(last.mesh_points) # last.n_points)
        => last.status = "ok" /\ last.written = {last.filename.text}

(* C7 amended: with more rows than the mesh has points write completes     *)
(* without error and produces the output file, which holds as many points  *)
(* as the source mesh; with fewer rows it raises an index error after      *)
(* recording the output path and writes no file.                           *)
C7_MismatchOutcome ==
    (last.op = "write" /\ last.n_points >= 0)
        => /\ Len(last.mesh_points) > last.n_points
                => /\ last.status = "ok"
                   /\ last.written = {last.filename.text}
                   /\ Len(fs[last.filename.text].points) = last.n_points
           /\ Len(last.mesh_points) < last.n_points
                => /\ last.status = "IndexError"
                   /\ last.written = {}
                   /\ outfile = last.filename

C7_Witness ==
    /\ last.op = "write"
    /\ last.status = "IndexError"
    /\ last.n_points = 3
    /\ Len(last.mesh_points) = 2

(* C8: plot and show given a path (not None) that is not a string or lacks *)
(* '.vtk' raise an invalid-argument error and read no file.                *)
C8_PlotShowChecks ==
    (last.op \in {"plot", "show"} /\ last.filename # None
            /\ ~IsVtkPath(last.filename))
        => InvalidArgument(last.status) /\ last.read = {}

(* C9: plot in save mode writes one image, named by the text of the        *)
(* plotted path before its first '.' followed by '.png', and opens no      *)
(* display, also when the directory part of the path holds a '.'.          *)
C9_ImageName ==
    (last.op = "plot" /\ last.save_fig /\ last.status = "ok")
        => LET path == (IF last.filename = None THEN infile ELSE last.filename).text
           IN  /\ ~last.shown
               /\ \E n \in 0..Len(path) :
                    /\ last.written = {SubSeq(path, 1, n) \o png}
                    /\ \A i \in 1..n : path[i] # "."
                    /\ n = Len(path) \/ path[n + 1] = "."
               /\ \A w \in last.written : w \in DOMAIN fs /\ fs[w].kind = "png"

C9_Witness ==
    /\ last.op = "plot"
    /\ last.save_fig
    /\ last.status = "ok"
    /\ last.filename = Str(b_vtk)
    /\ last.written = {png}

(* C10: the input path changes only in a parse whose path is a '.vtk'      *)
(* string, the output path only in a write whose path is a '.vtk' string   *)
(* and that finds an input path recorded; every other call, rejected or    *)
(* not, leaves the field as it was.                                        *)
C10_FieldsFrame ==
    [][/\ infile' # infile
            => /\ last'.op = "parse"
               /\ IsVtkPath(last'.filename)
               /\ infile' = last'.filename
       /\ outfile' # outfile
            => /\ last'.op = "write"
               /\ IsVtkPath(last'.filename)
               /\ infile # None
               /\ outfile' = last'.filename
       /\ (~InvalidArgument(last'.status) /\ ~PreconditionError(last'.status))
            \/ (infile' = infile /\ outfile' = outfile)]_vars

C10_Witness ==
    /\ last.op = "parse"
    /\ InvalidArgument(last.status)
    /\ infile = Str(a_vtk)
    /\ outfile = Str(b_vtk)

====
